---- MODULE Spec2Model ----
(***************************************************************************)
(* Model of the root controller of the Daily video-call demo               *)
(* (RootScreen, with the HomeScreen start button).  The React state of the *)
(* controller, the promises it leaves pending and the vendor call objects  *)
(* it creates are the state; every user callback, promise continuation and *)
(* vendor event is one action, which includes the re-render and the        *)
(* effects that the state change schedules.                                *)
(***************************************************************************)
EXTENDS Integers, FiniteSets, Sequences, TLC

\* ---------------------------------------------------------------- bounds
MaxObjects == 2      \* call objects created in one behaviour
MaxPending == 2      \* createRoom() requests in flight at once
MaxDestroy == 2      \* destroy() invocations in one behaviour

\* ------------------------------------------------------------- constants
STATE_IDLE      == "STATE_IDLE"
STATE_CREATING  == "STATE_CREATING"
STATE_HAIRCHECK == "STATE_HAIRCHECK"
STATE_JOINING   == "STATE_JOINING"
STATE_JOINED    == "STATE_JOINED"
STATE_LEAVING   == "STATE_LEAVING"
STATE_ERROR     == "STATE_ERROR"

AppStates == {STATE_IDLE, STATE_CREATING, STATE_HAIRCHECK, STATE_JOINING,
              STATE_JOINED, STATE_LEAVING, STATE_ERROR}

\* the four events the controller subscribes to
events == {"joined-meeting", "left-meeting", "error", "camera-error"}

NoObj   == 0
Objects == 1..MaxObjects

\* room URLs: the room of a shared link, and the new unique room the room
\* API creates for the n-th hair check
SharedUrl == "https://x.daily.co/shared"
RoomNames == <<"https://x.daily.co/room1", "https://x.daily.co/room2",
               "https://x.daily.co/room3", "https://x.daily.co/room4",
               "https://x.daily.co/room5", "https://x.daily.co/room6">>
RoomUrl(n) == RoomNames[n]
Urls == {SharedUrl} \cup {RoomUrl(n) : n \in Objects}
null == "null"
undefined == "undefined"

\* JavaScript truthiness of a room URL value
Truthy(v) == v \notin {null, undefined}

\* the page address: the part before '?' is fixed, the query carries a room
BasePage == [base |-> "http://localhost:3000/", room |-> null]

\* modules/utils: the room URL encoded in the page address, or null
roomUrlFromPageUrl(page) == page.room

\* modules/utils: the page address that shares the room URL
pageUrlFromRoomUrl(page, url) ==
  [base |-> page.base, room |-> IF Truthy(url) THEN url ELSE null]

PageUrls == {BasePage} \cup {pageUrlFromRoomUrl(BasePage, u) : u \in Urls}

\* the addresses the page is loaded with: the plain one and a shared link
LoadUrls == {BasePage, pageUrlFromRoomUrl(BasePage, SharedUrl)}

\* ------------------------------------------------------------------ state
VARIABLES
  appState,     \* useState(STATE_IDLE)
  roomUrl,      \* useState<string|null>(null)
  callObject,   \* useState<DailyCall|null>(null): an object id or NoObj
  apiError,     \* useState(false)
  href,         \* window.location.href
  mounted,      \* the mount effects have run
  pendingRooms, \* api.createRoom() promises not yet settled
  created,      \* number of DailyIframe.createCallObject() calls so far
  obj,          \* the call objects: vendor state and what was invoked on them
  loadUrl,      \* the page address of the initial load
  last,         \* the handler or event that produced this state
  writes,       \* window.history.replaceState() calls made by that step
  unmounted     \* the controller has been unmounted

vars == <<appState, roomUrl, callObject, apiError, href, mounted,
          pendingRooms, created, obj, loadUrl, last, writes, unmounted>>

\* a call object that createCallObject() has not returned yet
NoCall == [ms |-> "none", hc |-> "none", preAuthUrl |-> "none",
           joinUrl |-> "none", leaveCalled |-> FALSE,
           destroyCalls |-> 0, destroyPending |-> 0, destroyDone |-> FALSE,
           reused |-> FALSE, handlers |-> [e \in events |-> 0]]

Init ==
  /\ appState = STATE_IDLE
  /\ roomUrl = null
  /\ callObject = NoObj
  /\ apiError = FALSE
  /\ href \in LoadUrls
  /\ mounted = FALSE
  /\ pendingRooms = 0
  /\ created = 0
  /\ obj = [o \in Objects |-> NoCall]
  /\ loadUrl = href
  /\ last = "init"
  /\ writes = 0
  /\ unmounted = FALSE

\* ------------------------------------------------------------- rendering
showCall(err, st) == ~err /\ st \in {STATE_JOINING, STATE_JOINED, STATE_ERROR}

showHairCheck(err, st) == ~err /\ st = STATE_HAIRCHECK

\* renderApp() with the API error test left out
renderAppNoApiError(err, st, co) ==
  IF showHairCheck(FALSE, st) /\ co # NoObj THEN "hair-check"
  ELSE IF showCall(FALSE, st) /\ co # NoObj THEN "call"
  ELSE "home"

\* the screen renderApp() returns
renderApp(err, st, co) ==
  IF err THEN "api-error"
  ELSE IF showHairCheck(err, st) /\ co # NoObj THEN "hair-check"
  ELSE IF showCall(err, st) /\ co # NoObj THEN "call"
  ELSE "home"

view == renderApp(apiError, appState, callObject)

\* ------------------------------------------- the vendor call object (SDK)
\* any operation invoked on a call object after destroy() is a reuse
Used(r) == [r EXCEPT !.reused = @ \/ r.destroyCalls > 0]

createCallObject == [NoCall EXCEPT !.ms = "new"]

preAuth(r, url) ==
  [Used(r) EXCEPT !.preAuthUrl = url,
                  !.ms = IF r.ms = "new" THEN "loading" ELSE @]

startCamera(r) ==
  [Used(r) EXCEPT !.ms = IF r.ms = "loading" THEN "loaded" ELSE @]

join(r, url) ==
  [Used(r) EXCEPT !.joinUrl = url,
                  !.ms = IF r.ms \in {"new", "loading", "loaded"}
                         THEN "joining-meeting" ELSE @]

leave(r) == [Used(r) EXCEPT !.leaveCalled = TRUE]

destroy(r) ==
  [Used(r) EXCEPT !.destroyCalls = @ + 1, !.destroyPending = @ + 1]

\* callObject.on(event, handler) and callObject.off(event, handler), for each
\* of the four events
on(r) == [r EXCEPT !.handlers = [e \in events |-> @[e] + 1]]

off(r) ==
  [r EXCEPT !.handlers = [e \in events |-> IF @[e] > 0 THEN @[e] - 1 ELSE 0]]

\* some handler is subscribed on the call object r
Subscribed(r) == \E e \in events : r.handlers[e] > 0

\* ------------------------------------------------- handleNewMeetingState
\* the handler taking a join in progress for a joined meeting
handleNewMeetingStateAppEager(co, objs, st) ==
  IF co = NoObj THEN st
  ELSE CASE objs[co].ms \in {"joining-meeting", "joined-meeting"} -> STATE_JOINED
         [] objs[co].ms = "error" -> STATE_ERROR
         [] OTHER -> st

\* the handler without its error case
handleNewMeetingStateAppNoError(co, objs, st) ==
  IF co = NoObj THEN st
  ELSE CASE objs[co].ms = "joined-meeting" -> STATE_JOINED
         [] OTHER                          -> st

\* the handler storing the vendor's meeting state for an error
handleNewMeetingStateAppRaw(co, objs, st) ==
  IF co = NoObj THEN st
  ELSE CASE objs[co].ms = "joined-meeting" -> STATE_JOINED
         [] objs[co].ms = "error"          -> objs[co].ms
         [] OTHER                          -> st

\* the application state the handler sets, for the call object co of its
\* closure and the meeting states in objs
handleNewMeetingStateApp(co, objs, st) ==
  IF co = NoObj THEN st
  ELSE CASE objs[co].ms = "joined-meeting" -> STATE_JOINED
         [] objs[co].ms = "error"          -> STATE_ERROR
         [] OTHER                          -> st

\* the handler leaving a call object that has left the meeting as it is
handleNewMeetingStateObjsNoDestroy(co, objs) == objs

\* the SDK calls the handler makes
handleNewMeetingStateObjs(co, objs) ==
  IF co # NoObj /\ objs[co].ms = "left-meeting"
  THEN [objs EXCEPT ![co] = destroy(@)]
  ELSE objs

\* --------------------------------------------- re-render and its effects
\* one run of the room URL effect: the page address after it, and the
\* number of replaceState() calls it makes
roomUrlEffectRun(page, url) ==
  IF pageUrlFromRoomUrl(page, url) = page THEN page
  ELSE pageUrlFromRoomUrl(page, url)

roomUrlEffectRunWrites(page, url) ==
  IF pageUrlFromRoomUrl(page, url) = page THEN 0 ELSE 1

\* useEffect(..., [roomUrl]): the effect runs when roomUrl has changed
roomUrlEffect(page, oldUrl, newUrl) ==
  IF oldUrl = newUrl THEN page ELSE roomUrlEffectRun(page, newUrl)

roomUrlEffectWrites(page, oldUrl, newUrl) ==
  IF oldUrl = newUrl THEN 0 ELSE roomUrlEffectRunWrites(page, newUrl)

\* the call object effect without the cleanup of its previous run
callObjectEffectObjsNoCleanup(old, new, objs) ==
  IF old # new /\ new # NoObj
  THEN [handleNewMeetingStateObjs(new, objs) EXCEPT ![new] = on(@)]
  ELSE objs

\* useEffect(..., [callObject]): the cleanup of the previous run, then the
\* initial handler call and the subscriptions on the new call object
callObjectEffectObjs(old, new, objs) ==
  LET cleaned == IF old # new /\ old # NoObj
                 THEN [objs EXCEPT ![old] = off(@)] ELSE objs
  IN  IF old # new /\ new # NoObj
      THEN [handleNewMeetingStateObjs(new, cleaned) EXCEPT ![new] = on(@)]
      ELSE cleaned

callObjectEffectApp(old, new, objs, st) ==
  IF old # new /\ new # NoObj
  THEN handleNewMeetingStateApp(new, objs, st)
  ELSE st

\* the state after the batched setState calls st, url, co have been rendered
\* and the effects of that render have run, for the page address page and
\* the w replaceState() calls of the step so far
CommitFrom(page, w, st, url, co, objs) ==
  /\ appState' = callObjectEffectApp(callObject, co, objs, st)
  /\ roomUrl' = url
  /\ callObject' = co
  /\ obj' = callObjectEffectObjs(callObject, co, objs)
  /\ href' = roomUrlEffect(page, roomUrl, url)
  /\ writes' = w + roomUrlEffectWrites(page, roomUrl, url)

Commit(st, url, co, objs) == CommitFrom(href, 0, st, url, co, objs)

\* the number of destroy() invocations so far, on the call objects 1..n
RECURSIVE destroyCallsUpTo(_)
destroyCallsUpTo(n) ==
  IF n = 0 THEN 0 ELSE obj[n].destroyCalls + destroyCallsUpTo(n - 1)

destroyCallsSoFar == destroyCallsUpTo(MaxObjects)

\* --------------------------------------------------------------- actions
\* startHairCheck(url) up to its first await: the call object is created,
\* the three states are set and preAuth() is invoked
startHairCheckFrom(page, w, url) ==
  /\ created < MaxObjects
  /\ created' = created + 1
  /\ CommitFrom(page, w, STATE_HAIRCHECK, url, created + 1,
                [obj EXCEPT ![created + 1] =
                   [preAuth(createCallObject, url) EXCEPT !.hc = "preAuth"]])

startHairCheck(url) == startHairCheckFrom(href, 0, url)

\* the mount effect sending a shared link through room creation
MountCreating ==
  /\ ~mounted
  /\ mounted' = TRUE
  /\ appState' = IF Truthy(roomUrlFromPageUrl(href)) THEN STATE_CREATING
                 ELSE appState
  /\ pendingRooms' = IF Truthy(roomUrlFromPageUrl(href)) THEN 1 ELSE 0
  /\ last' = "Mount"
  /\ writes' = 0
  /\ UNCHANGED <<roomUrl, callObject, apiError, href, created, obj, loadUrl,
                 unmounted>>

\* the first commit: the mount effect starts a hair check for a shared
\* link, the room URL effect runs for the roomUrl of the first render, and
\* the render that startHairCheck schedules follows
Mount ==
  /\ ~mounted
  /\ mounted' = TRUE
  /\ LET url == roomUrlFromPageUrl(href)
         page == roomUrlEffectRun(href, roomUrl)
         w == roomUrlEffectRunWrites(href, roomUrl)
     IN  IF Truthy(url)
         THEN startHairCheckFrom(page, w, url)
         ELSE /\ href' = page
              /\ writes' = w
              /\ UNCHANGED <<appState, roomUrl, callObject, obj, created>>
  /\ last' = "Mount"
  /\ UNCHANGED <<apiError, pendingRooms, loadUrl, unmounted>>

\* HomeScreen.startDemo up to the pending createRoom(): createCall()
startDemo ==
  /\ mounted /\ ~unmounted
  /\ view = "home"
  /\ pendingRooms < MaxPending
  /\ created + pendingRooms < MaxObjects
  /\ appState' = STATE_CREATING
  /\ pendingRooms' = pendingRooms + 1
  /\ last' = "startDemo"
  /\ writes' = 0
  /\ UNCHANGED <<roomUrl, callObject, apiError, href, mounted, created, obj,
                 loadUrl, unmounted>>

\* createRoom() resolved with a room: .then(room => room.url), then
\* startDemo's .then(url => startHairCheck(url))
createRoomResolved ==
  /\ ~unmounted
  /\ pendingRooms > 0
  /\ pendingRooms' = pendingRooms - 1
  /\ startHairCheck(RoomUrl(created + 1))
  /\ last' = "createRoomResolved"
  /\ UNCHANGED <<apiError, mounted, loadUrl, unmounted>>

\* createRoom() rejected: the catch handler sets roomUrl null, the state idle
\* and the error flag, and returns undefined; startDemo's .then then runs
\* startHairCheck(undefined) in the next microtask
createRoomRejected ==
  /\ ~unmounted
  /\ pendingRooms > 0
  /\ pendingRooms' = pendingRooms - 1
  /\ apiError' = TRUE
  /\ startHairCheck(undefined)
  /\ last' = "createRoomRejected"
  /\ UNCHANGED <<mounted, loadUrl, unmounted>>

\* await newCallObject.preAuth() resolved: startCamera() is invoked, and
\* nothing follows its await.  (A preAuth() that rejects ends startHairCheck
\* with no further step, as one that stays pending does.)
preAuthResolved(o) ==
  /\ ~unmounted
  /\ obj[o].hc = "preAuth"
  /\ obj' = [obj EXCEPT ![o] = [startCamera(@) EXCEPT !.hc = "startCamera"]]
  /\ last' = "preAuthResolved"
  /\ writes' = 0
  /\ UNCHANGED <<appState, roomUrl, callObject, apiError, href, mounted,
                 pendingRooms, created, loadUrl, unmounted>>

\* the hair-check screen's confirm button: joinCall()
joinCall ==
  /\ mounted /\ ~unmounted
  /\ view = "hair-check"
  /\ obj' = IF callObject # NoObj /\ Truthy(roomUrl)
            THEN [obj EXCEPT ![callObject] = join(@, roomUrl)]
            ELSE obj
  /\ last' = "joinCall"
  /\ writes' = 0
  /\ UNCHANGED <<appState, roomUrl, callObject, apiError, href, mounted,
                 pendingRooms, created, loadUrl, unmounted>>

\* the hair-check screen's cancel button and the tray's leave button:
\* startLeavingCall()
startLeavingCall ==
  /\ mounted /\ ~unmounted
  /\ view \in {"hair-check", "call"}
  /\ IF callObject = NoObj
     THEN UNCHANGED <<appState, obj>>
     ELSE IF appState = STATE_ERROR
     THEN /\ destroyCallsSoFar < MaxDestroy
          /\ obj' = [obj EXCEPT ![callObject] = destroy(@)]
          /\ UNCHANGED appState
     ELSE /\ appState' = STATE_LEAVING
          /\ obj' = [obj EXCEPT ![callObject] = leave(@)]
  /\ last' = "startLeavingCall"
  /\ writes' = 0
  /\ UNCHANGED <<roomUrl, callObject, apiError, href, mounted, pendingRooms,
                 created, loadUrl, unmounted>>

\* a destroy() promise resolved: the .then of startLeavingCall or of
\* handleNewMeetingState clears the room URL and the call object, sets idle
destroyResolved(o) ==
  /\ ~unmounted
  /\ obj[o].destroyPending > 0
  /\ Commit(STATE_IDLE, null, NoObj,
            [obj EXCEPT ![o].destroyPending = @ - 1, ![o].destroyDone = TRUE])
  /\ last' = "destroyResolved"
  /\ UNCHANGED <<apiError, mounted, pendingRooms, created, loadUrl, unmounted>>

\* the handler subscribed n times runs n times for one event
RECURSIVE handleTimes(_, _, _)
handleTimes(n, co, objs) ==
  IF n = 0 THEN objs
  ELSE handleTimes(n - 1, co, handleNewMeetingStateObjs(co, objs))

\* the vendor changes the meeting state of o to ms and emits ev: each
\* handler subscribed to ev on o, whose closure holds o, runs
vendorEmit(o, ev, ms) ==
  LET objs == [obj EXCEPT ![o].ms = ms]
      n    == obj[o].handlers[ev]
  IN  /\ ~unmounted
      /\ (n > 0 /\ ms = "left-meeting") => destroyCallsSoFar + n <= MaxDestroy
      /\ appState' = IF n > 0 THEN handleNewMeetingStateApp(o, objs, appState)
                     ELSE appState
      /\ obj' = handleTimes(n, o, objs)
      /\ last' = ev
      /\ writes' = 0
      /\ UNCHANGED <<roomUrl, callObject, apiError, href, mounted,
                     pendingRooms, created, loadUrl, unmounted>>

\* Nothing reads the meeting state of a call object without subscriptions,
\* and none is subscribed again: of its events only the left-meeting report,
\* which decides whether it is ever destroyed, is followed.

\* the vendor reports that the join completed
vendorJoined(o) ==
  /\ Subscribed(obj[o])
  /\ obj[o].ms = "joining-meeting"
  /\ obj[o].destroyCalls = 0
  /\ vendorEmit(o, "joined-meeting", "joined-meeting")

\* the vendor reports that the leave completed
vendorLeft(o) ==
  /\ obj[o].leaveCalled
  /\ obj[o].ms \notin {"none", "left-meeting", "error"}
  /\ obj[o].destroyCalls = 0
  /\ vendorEmit(o, "left-meeting", "left-meeting")

\* the vendor reports a fatal error
vendorError(o) ==
  /\ Subscribed(obj[o])
  /\ obj[o].ms \notin {"none", "error"}
  /\ obj[o].destroyCalls = 0
  /\ vendorEmit(o, "error", "error")

\* the vendor reports a camera error: the meeting state is not changed
vendorCameraError(o) ==
  /\ Subscribed(obj[o])
  /\ obj[o].hc = "startCamera"
  /\ ~obj[o].destroyDone
  /\ vendorEmit(o, "camera-error", obj[o].ms)

\* the controller is unmounted: the cleanup of the call object effect runs.
\* React drops the state updates of an unmounted component and runs no
\* effect for it, so the steps after the unmount are not followed.
Unmount ==
  /\ mounted /\ ~unmounted
  /\ unmounted' = TRUE
  /\ obj' = IF callObject # NoObj THEN [obj EXCEPT ![callObject] = off(@)]
            ELSE obj
  /\ last' = "Unmount"
  /\ writes' = 0
  /\ UNCHANGED <<appState, roomUrl, callObject, apiError, href, mounted,
                 pendingRooms, created, loadUrl>>

Next ==
  \/ Unmount
  \/ Mount
  \/ startDemo
  \/ createRoomResolved
  \/ createRoomRejected
  \/ joinCall
  \/ startLeavingCall
  \/ \E o \in Objects : preAuthResolved(o)
  \/ \E o \in Objects : destroyResolved(o)
  \/ \E o \in Objects : vendorJoined(o)
  \/ \E o \in Objects : vendorLeft(o)
  \/ \E o \in Objects : vendorError(o)
  \/ \E o \in Objects : vendorCameraError(o)

Spec == Init /\ [][Next]_vars

\* the steps of the controller while it stays mounted
NextMounted ==
  \/ Mount
  \/ startDemo
  \/ createRoomResolved
  \/ createRoomRejected
  \/ joinCall
  \/ startLeavingCall
  \/ \E o \in Objects : preAuthResolved(o)
  \/ \E o \in Objects : destroyResolved(o)
  \/ \E o \in Objects : vendorJoined(o)
  \/ \E o \in Objects : vendorLeft(o)
  \/ \E o \in Objects : vendorError(o)
  \/ \E o \in Objects : vendorCameraError(o)

\* the event loop runs the mount effect and every settled promise's
\* continuation, and the vendor completes a leave it was asked for
Fairness ==
  /\ WF_vars(Mount)
  /\ WF_vars(createRoomResolved \/ createRoomRejected)
  /\ \A o \in Objects :
       /\ WF_vars(preAuthResolved(o))
       /\ WF_vars(destroyResolved(o))
       /\ WF_vars(vendorLeft(o))

FairSpec == Init /\ [][NextMounted]_vars /\ Fairness

\* ------------------------------------------------------------ properties
\* the call objects created and not yet destroyed
Live == {o \in Objects : obj[o].ms # "none" /\ ~obj[o].destroyDone}

\* the page was loaded from a shared link
DeepLink == Truthy(roomUrlFromPageUrl(loadUrl))

\* C1: in every reachable state at most one call object has been created
\* and not yet destroyed.
C1_AtMostOneCallObject == Cardinality(Live) <= 1

\* C2: the step that handles a rejected room creation leaves the state idle
\* with the API error flag set, and creates no call object.
C2_FailureReturnsToIdle ==
  [][createRoomRejected =>
       (appState' = STATE_IDLE /\ apiError' /\ created' = created)]_vars

\* C3: whenever the state becomes idle again, every call object created so
\* far has completed destroy() and the controller holds no call object.
C3_DestroyedBeforeIdle ==
  [][(appState # STATE_IDLE /\ appState' = STATE_IDLE) =>
       (callObject' = NoObj /\
        \A o \in Objects : obj'[o].ms # "none" => obj'[o].destroyDone)]_vars

\* C4: every step into joined is a vendor event handled by the meeting-state
\* handler while the held call object's meeting state is joined-meeting.
C4_JoinedOnlyFromVendor ==
  [][(appState # STATE_JOINED /\ appState' = STATE_JOINED) =>
       (/\ last' \in events
        /\ callObject # NoObj
        /\ callObject' = callObject
        /\ obj[callObject].handlers[last'] > 0
        /\ obj'[callObject].ms = "joined-meeting")]_vars

C4_Witness == appState = STATE_JOINED /\ last = "joined-meeting"

\* C5: confirming the hair check in state hair-check sets the state to
\* joining and invokes join() on the held call object with the room URL.
C5_ConfirmSetsJoining ==
  [][(joinCall /\ appState = STATE_HAIRCHECK) =>
       (/\ appState' = STATE_JOINING
        /\ obj'[callObject].joinUrl = roomUrl)]_vars

\* C6: an error event or a camera-error event of the vendor on the held call
\* object sets the state to error.
C6_VendorErrorSetsError ==
  [][(callObject # NoObj /\
      (vendorError(callObject) \/ vendorCameraError(callObject))) =>
       appState' = STATE_ERROR]_vars

\* C7: leaving in the error state invokes destroy() and not leave(); leaving
\* in hair-check, joining or joined sets leaving and invokes leave(); and
\* after such a leave the room URL and the call object are cleared and the
\* state set to idle only by a destroy() that resolves after left-meeting.
C7_LeaveDiscipline ==
  [][LET o == callObject IN
     /\ (startLeavingCall /\ appState = STATE_ERROR) =>
          (/\ obj'[o].destroyCalls = obj[o].destroyCalls + 1
           /\ obj'[o].leaveCalled = obj[o].leaveCalled
           /\ appState' = appState /\ callObject' = o /\ roomUrl' = roomUrl)
     /\ (startLeavingCall /\ appState # STATE_ERROR) =>
          (/\ appState' = STATE_LEAVING
           /\ obj'[o].leaveCalled
           /\ obj'[o].destroyCalls = obj[o].destroyCalls
           /\ callObject' = o /\ roomUrl' = roomUrl)
     /\ (/\ o # NoObj
         /\ obj[o].leaveCalled
         /\ appState # STATE_ERROR
         /\ \/ Truthy(roomUrl) /\ ~Truthy(roomUrl')
            \/ callObject' = NoObj
            \/ appState # STATE_IDLE /\ appState' = STATE_IDLE) =>
          (/\ last' = "destroyResolved"
           /\ obj[o].ms = "left-meeting"
           /\ obj'[o].destroyDone)]_vars

\* C8: no SDK operation is invoked on a call object after destroy() has
\* been invoked on it.
C8_NeverReused == \A o \in Objects : ~obj[o].reused

\* C9: the API error flag, once set, stays set, and while it is set the
\* rendered screen is the API error view.
C9_ApiErrorStands ==
  /\ [][apiError => apiError']_vars
  /\ [](apiError => view = "api-error")

C9_Witness == apiError /\ callObject # NoObj /\ last = "preAuthResolved"

C11_HappyPath ==
  [][/\ (last' = "createRoomResolved" /\ createRoomResolved) =>
          (/\ obj[created + 1].ms = "none"
           /\ callObject' = created + 1
           /\ appState' = STATE_HAIRCHECK
           /\ roomUrl' = RoomUrl(created + 1)
           /\ obj'[callObject'].preAuthUrl = roomUrl'
           /\ obj'[callObject'].hc = "preAuth")
     /\ \A o \in Objects :
          (last' = "preAuthResolved" /\ preAuthResolved(o)) =>
            obj'[o].hc = "startCamera"
     /\ (last' = "joinCall" /\ joinCall) =>
          (/\ roomUrl = obj[callObject].preAuthUrl
           /\ obj'[callObject].joinUrl = roomUrl
           /\ obj'[callObject].ms \notin {"new", "loading", "loaded"})
     /\ (last' = "joined-meeting" /\ callObject # NoObj
           /\ vendorJoined(callObject)) =>
          appState' = STATE_JOINED
     /\ (last' = "startLeavingCall" /\ appState = STATE_JOINED
           /\ startLeavingCall) =>
          (obj'[callObject].leaveCalled /\ appState' = STATE_LEAVING)
     /\ (last' = "left-meeting" /\ callObject # NoObj
           /\ vendorLeft(callObject)) =>
          (/\ obj'[callObject].destroyCalls = obj[callObject].destroyCalls + 1
           /\ obj'[callObject].destroyPending > 0)
     /\ \A o \in Objects :
          (last' = "destroyResolved" /\ destroyResolved(o)) =>
            (/\ obj'[o].destroyDone
             /\ appState' = STATE_IDLE
             /\ roomUrl' = null
             /\ callObject' = NoObj)]_vars

\* the happy path up to the leave: the user has left the joined call
C11_Witness ==
  /\ ~DeepLink /\ created = 1 /\ callObject = 1
  /\ roomUrl = RoomUrl(1)
  /\ obj[1].preAuthUrl = RoomUrl(1) /\ obj[1].hc = "startCamera"
  /\ obj[1].joinUrl = RoomUrl(1)
  /\ obj[1].ms = "joined-meeting"
  /\ obj[1].leaveCalled /\ obj[1].destroyCalls = 0
  /\ last = "startLeavingCall"
  /\ appState = STATE_LEAVING

\* C12: handlers are subscribed on no call object but the one the mounted
\* controller holds; on that one each of the four events has exactly one
\* handler; after a change of the reference or the unmount none is left on
\* the previous call object.
C12_SubscriptionsFollowCallObject ==
  \A o \in Objects :
    /\ Subscribed(obj[o]) => (o = callObject /\ ~unmounted)
    /\ \A e \in events : obj[o].handlers[e] <= 1
    /\ (o = callObject /\ ~unmounted) =>
         \A e \in events : obj[o].handlers[e] = 1

\* a second call object has replaced the first one
C12_Witness ==
  /\ callObject = 2
  /\ obj[1].ms # "none" /\ ~obj[1].destroyDone /\ ~Subscribed(obj[1])
  /\ Subscribed(obj[2])

\* C13: in the error state after a vendor error on the held call object,
\* the rendered view is the call view, whose tray offers the leave action.
C13_ErrorViewOffersLeave ==
  (/\ ~unmounted
   /\ appState = STATE_ERROR
   /\ callObject # NoObj
   /\ obj[callObject].ms = "error") => view = "call"

\* C14: the application state is always one of the seven enumerated states.
C14_StateIsOneOfSeven == appState \in AppStates

C14_Witness == appState = STATE_ERROR /\ last = "error"

\* C15: once leave() was invoked on a call object and the vendor has
\* reported left-meeting for it, that call object, if not yet destroyed,
\* is eventually destroyed, with the controller idle and the room URL and
\* the call object cleared.
C15_LeftLeadsToIdle ==
  \A o \in Objects :
    (obj[o].leaveCalled /\ obj[o].ms = "left-meeting" /\ ~obj[o].destroyDone) ~>
      (/\ obj[o].destroyDone
       /\ appState = STATE_IDLE
       /\ roomUrl = null
       /\ callObject = NoObj)

\* C16: the page address is rewritten only by a step that changes roomUrl,
\* once, and only when the address computed from the new roomUrl differs
\* from the current one; otherwise address and history are left alone; and
\* once mounted the address is the one computed from roomUrl.
C16_AddressFollowsRoomUrl ==
  /\ [][/\ writes' > 0 =>
            (/\ roomUrl' # roomUrl
             /\ writes' = 1
             /\ pageUrlFromRoomUrl(href, roomUrl') # href
             /\ href' = pageUrlFromRoomUrl(href, roomUrl'))
        /\ href' # href => writes' > 0]_vars
  /\ [](mounted => href = pageUrlFromRoomUrl(href, roomUrl))

\* C17: destroy() is invoked at most once on any call object.
C17_DestroyAtMostOnce == \A o \in Objects : obj[o].destroyCalls <= 1

\* C18: the controller holds a call object exactly when roomUrl is a room
\* URL string, neither null nor undefined.
C18_UrlAndCallObjectTogether == (callObject # NoObj) <=> Truthy(roomUrl)

\* a vendor event on the held call object
VendorEventOnHeld ==
  /\ callObject # NoObj
  /\ \/ vendorJoined(callObject)
     \/ vendorLeft(callObject)
     \/ vendorError(callObject)
     \/ vendorCameraError(callObject)

\* C19 (amended): while the state is leaving, a vendor event for the held
\* call object is handled as in any other state: it sets joined exactly when
\* the meeting state is then joined-meeting and error exactly when it is
\* error; a left-meeting report keeps the state leaving and invokes
\* destroy(); no vendor event sets idle.
C19_LeavingFollowsMeetingState ==
  [][(appState = STATE_LEAVING /\ VendorEventOnHeld) =>
       LET ms == obj'[callObject].ms IN
       /\ appState' \in {STATE_LEAVING, STATE_JOINED, STATE_ERROR}
       /\ appState' = STATE_JOINED <=> ms = "joined-meeting"
       /\ appState' = STATE_ERROR <=> ms = "error"
       /\ ms = "left-meeting" =>
            obj'[callObject].destroyCalls > obj[callObject].destroyCalls]_vars

\* the joined-meeting report has arrived after the user left
C19_Witness ==
  /\ appState = STATE_JOINED /\ last = "joined-meeting"
  /\ callObject # NoObj /\ obj[callObject].leaveCalled

\* C19 (as stated): while the state is leaving, a vendor event for the held
\* call object does not set joined or error: it leaves the state leaving,
\* or idle.
C19_LeavingNotOverridden ==
  [][(/\ appState = STATE_LEAVING
      /\ callObject # NoObj
      /\ \/ vendorJoined(callObject)
         \/ vendorLeft(callObject)
         \/ vendorError(callObject)
         \/ vendorCameraError(callObject)) =>
       appState' \in {STATE_LEAVING, STATE_IDLE}]_vars

TypeOK ==
  /\ appState \in AppStates
  /\ roomUrl \in Urls \cup {null, undefined}
  /\ callObject \in Objects \cup {NoObj}
  /\ apiError \in BOOLEAN
  /\ href \in PageUrls
  /\ created \in 0..MaxObjects
  /\ pendingRooms \in 0..MaxPending

====
